---- MODULE Spec2Model ----
(***************************************************************************)
(* Model of the service health checker: the five probes of                 *)
(* src/lib/healthChecks.ts, the orchestrator runAllHealthChecks and the    *)
(* GET /api/health handler of src/app/page.tsx.                            *)
(*                                                                         *)
(* JavaScript runs the code between two suspension points atomically, so   *)
(* every action below is either the synchronous start of a call or the     *)
(* continuation that runs when one awaited operation, socket event or      *)
(* timer completes.                                                        *)
(***************************************************************************)
EXTENDS Integers, Sequences, FiniteSets, TLC

VARIABLES
    env,               \* process.env (read-only after start-up)
    entry,             \* exported function that was invoked: "none", "GET", "POST", "checkDNSPort"
    args,              \* call-time arguments (hostname, port) of checkDNSPort
    promise,           \* the five promises handed to Promise.allSettled, by index 0..4
    settleOrder,       \* indices of the promises in the order in which they settled
    db,                \* checkDatabase: position, pg client and connection
    s3,                \* checkS3: position and client
    ses,               \* checkSES: position and client
    dns,               \* checkDNSPort: socket, timer, first event and resolve calls
    run,               \* runAllHealthChecks: position and processedResults
    response,          \* what the handler answered
    calls,             \* how many times each check function was called, by index
    prev,              \* outcomes and report of the previous GET request, if any
    request            \* the body of the POST request

vars ==
    <<env, entry, args, promise, settleOrder, db, s3, ses, dns, run, response,
      calls, prev, request>>

----------------------------------------------------------------------------
(* JavaScript values.  A string is a sequence of characters; a value that  *)
(* may be undefined carries a def flag.  A number may be NaN.              *)

Undefined == [def |-> FALSE, chars |-> <<>>]
Str(s) == [def |-> TRUE, chars |-> s]
NumUndefined == [def |-> FALSE, nan |-> FALSE, n |-> 0]
Num(k) == [def |-> TRUE, nan |-> FALSE, n |-> k]
NaN == [def |-> TRUE, nan |-> TRUE, n |-> 0]

\* !v is false exactly for a defined, non-empty string
Truthy(v) == v.def /\ v.chars # <<>>

\* !v is false exactly for a defined number other than 0 and NaN
TruthyNum(v) == v.def /\ ~v.nan /\ v.n # 0

\* a || b on strings
OrStr(a, b) == IF Truthy(a) THEN a ELSE b

\* a || b on numbers
OrNum(a, b) == IF TruthyNum(a) THEN a ELSE b

Digits == {"0", "1", "2", "3", "4", "5", "6", "7", "8", "9"}

DigitVal(c) ==
    CASE c = "0" -> 0 [] c = "1" -> 1 [] c = "2" -> 2 [] c = "3" -> 3
      [] c = "4" -> 4 [] c = "5" -> 5 [] c = "6" -> 6 [] c = "7" -> 7
      [] c = "8" -> 8 [] c = "9" -> 9

RECURSIVE DigitPrefix(_)
\* the longest prefix of s made of decimal digits
DigitPrefix(s) ==
    IF s = <<>> \/ Head(s) \notin Digits THEN <<>>
    ELSE <<Head(s)>> \o DigitPrefix(Tail(s))

RECURSIVE DecimalValue(_)
DecimalValue(s) ==
    IF s = <<>> THEN 0
    ELSE 10 * DecimalValue(SubSeq(s, 1, Len(s) - 1)) + DigitVal(s[Len(s)])

\* parseInt(str) for strings without sign, blanks or radix prefix: the value
\* of the leading decimal digits, NaN when there are none
parseInt(v) ==
    IF DigitPrefix(v.chars) = <<>> THEN NaN
    ELSE Num(DecimalValue(DigitPrefix(v.chars)))

----------------------------------------------------------------------------
(* The environments and arguments explored.                                *)

SomeHost == Str(<<"h">>)
OtherHost == Str(<<"a", "r", "g">>)

\* unset, set to the empty string, set
StrVals == {Undefined, Str(<<>>), SomeHost}

\* unset, set
SetVals == {Undefined, SomeHost}

PortStrVals ==
    { Undefined, Str(<<>>), Str(<<"0">>), Str(<<"4", "4", "3">>),
      Str(<<"x">>), Str(<<"7", "0", "0", "0", "0">>) }

HostArgs == {Undefined, Str(<<>>), OtherHost}
PortArgs == {NumUndefined, Num(0), Num(8080)}

ListenPortVals == {Undefined, Str(<<"8", "0", "8", "0">>)}

\* process.env restricted to the variables the probes read
Envs ==
    [ PORT : ListenPortVals,
      DB_HOST : StrVals, DB_NAME : SetVals,
      DB_USERNAME : SetVals, DB_PASSWORD : StrVals,
      S3_BUCKET_NAME : StrVals, SES_FROM_EMAIL : StrVals,
      DNS_CHECK_HOST : SetVals, DNS_CHECK_PORT : PortStrVals ]

----------------------------------------------------------------------------
(* Results and promises.                                                   *)

\* the value of a skipped check
Null == [null |-> TRUE]

\* HealthCheckResult; a message is its fixed text, the error message inserted
\* into it ("" when none) and the values inserted into it
HealthCheckResult(service, status, text, err, vals, details) ==
    [ service |-> service, status |-> status,
      message |-> [text |-> text, err |-> err, vals |-> vals],
      details |-> details ]

\* error instanceof Error ? error.message : 'Unknown error'
ErrorMessage(error) == IF error.isError THEN error.message ELSE "Unknown error"

Fault(msg) == [isError |-> TRUE, message |-> msg]

Pending == [state |-> "pending"]
Fulfilled(v) == [state |-> "fulfilled", value |-> v]
Rejected(r) == [state |-> "rejected", reason |-> r]

\* the outcome of a call that throws before it returns a promise
Thrown(r) == [state |-> "thrown", reason |-> r]

\* resolve(v) of a promise: only the first settlement takes effect
Resolve(p, v) == IF p.state = "pending" THEN Fulfilled(v) ELSE p

----------------------------------------------------------------------------
(* checkPort                                                               *)

DefaultListenPort == Str(<<"3", "0", "0", "0">>)

\* variant: a missing PORT is reported as a failure
checkPortRequiresPort(e) ==
    HealthCheckResult("Application Port",
                      IF Truthy(e.PORT) THEN "success" ELSE "error",
                      "Application is running on port ", "",
                      <<OrStr(e.PORT, DefaultListenPort)>>,
                      [running |-> TRUE])

checkPort(e) ==
    HealthCheckResult("Application Port", "success",
                      "Application is running on port ", "",
                      <<OrStr(e.PORT, DefaultListenPort)>>,
                      [running |-> TRUE])

----------------------------------------------------------------------------
(* checkDatabase                                                           *)

\* variant: only the host is tested
DatabaseSkippedHostOnly(e) == ~Truthy(e.DB_HOST)

\* the condition under which checkDatabase returns null
DatabaseSkipped(e) ==
    \/ ~Truthy(e.DB_HOST)
    \/ ~Truthy(e.DB_NAME)
    \/ ~Truthy(e.DB_USERNAME)
    \/ ~Truthy(e.DB_PASSWORD)

DatabaseSuccess ==
    HealthCheckResult("PostgreSQL Database", "success",
                      "Successfully connected to database", "", <<>>,
                      [connected |-> TRUE])

DatabaseError(error) ==
    HealthCheckResult("PostgreSQL Database", "error",
                      "Database connection failed: ", ErrorMessage(error), <<>>,
                      [connected |-> FALSE])

DbIdle == [pc |-> "idle", client |-> FALSE, open |-> FALSE, ended |-> FALSE, rows |-> 0]

\* checkDatabase() up to its first await: the gate, new Client, client.connect()
StartCheckDatabase(e) ==
    IF DatabaseSkipped(e)
    THEN [p |-> Fulfilled(Null), st |-> [DbIdle EXCEPT !.pc = "skipped"]]
    ELSE [p |-> Pending, st |-> [DbIdle EXCEPT !.pc = "connect", !.client = TRUE]]

----------------------------------------------------------------------------
(* checkS3 and checkSES                                                    *)

\* a variant without the gate: the check always runs
S3SkippedNever(e) == FALSE

S3Skipped(e) == ~Truthy(e.S3_BUCKET_NAME)

S3Success ==
    HealthCheckResult("AWS S3", "success", "Successfully accessed S3 bucket",
                      "", <<>>, [accessible |-> TRUE])

S3Error(error) ==
    HealthCheckResult("AWS S3", "error", "S3 access failed: ",
                      ErrorMessage(error), <<>>, [accessible |-> FALSE])

AwsIdle == [pc |-> "idle", client |-> FALSE]

\* checkS3() up to its first await: the gate, new S3Client, the inner check
\* of the bucket name, s3Client.send(...)
StartCheckS3(e) ==
    IF S3Skipped(e)
    THEN [p |-> Fulfilled(Null), st |-> [AwsIdle EXCEPT !.pc = "skipped"]]
    ELSE LET bucketName == e.S3_BUCKET_NAME IN
         IF ~Truthy(bucketName)
         THEN [p |-> Fulfilled(S3Error(Fault("S3_BUCKET_NAME environment variable is not set"))),
               st |-> [pc |-> "done", client |-> TRUE]]
         ELSE [p |-> Pending, st |-> [pc |-> "send", client |-> TRUE]]

SESSkipped(e) == ~Truthy(e.SES_FROM_EMAIL)

SESSuccess(verificationStatus) ==
    HealthCheckResult("AWS SES", "success", "Successfully connected to SES",
                      "", <<>>,
                      [accessible |-> TRUE,
                       emailVerified |-> (verificationStatus = "Success")])

SESError(error) ==
    HealthCheckResult("AWS SES", "error", "SES access failed: ",
                      ErrorMessage(error), <<>>, [accessible |-> FALSE])

\* checkSES() up to its first await
StartCheckSES(e) ==
    IF SESSkipped(e)
    THEN [p |-> Fulfilled(Null), st |-> [AwsIdle EXCEPT !.pc = "skipped"]]
    ELSE LET fromEmail == e.SES_FROM_EMAIL IN
         IF ~Truthy(fromEmail)
         THEN [p |-> Fulfilled(SESError(Fault("SES_FROM_EMAIL environment variable is not set"))),
               st |-> [pc |-> "done", client |-> TRUE]]
         ELSE [p |-> Pending, st |-> [pc |-> "send", client |-> TRUE]]

----------------------------------------------------------------------------
(* checkDNSPort                                                            *)

DefaultHost == Str(<<"g", "o", "o", "g", "l", "e", ".", "c", "o", "m">>)
DefaultPortStr == Str(<<"8", "0">>)

\* 5 second timeout
timeout == 5000

\* variant: the check runs only when the arguments or the environment give
\* both the host and the port
DNSSkippedUnlessBoth(hostname, port, e) ==
    ~ \/ Truthy(hostname) /\ TruthyNum(port)
      \/ Truthy(e.DNS_CHECK_HOST) /\ Truthy(e.DNS_CHECK_PORT)

\* the condition under which checkDNSPort resolves to null
DNSSkipped(hostname, port, e) ==
    /\ ~Truthy(hostname)
    /\ ~TruthyNum(port)
    /\ ~Truthy(e.DNS_CHECK_HOST)
    /\ ~Truthy(e.DNS_CHECK_PORT)

\* variant: the environment takes precedence over the argument
testHostEnvFirst(hostname, e) == OrStr(OrStr(e.DNS_CHECK_HOST, hostname), DefaultHost)

testHost(hostname, e) == OrStr(OrStr(hostname, e.DNS_CHECK_HOST), DefaultHost)

testPort(port, e) == OrNum(port, parseInt(OrStr(e.DNS_CHECK_PORT, DefaultPortStr)))

\* createConnection throws synchronously for a port that is NaN or outside
\* 0..65535 and otherwise returns a connecting socket
CreateConnectionThrows(port) == port.nan \/ port.n < 0 \/ port.n > 65535

DNSTimeout(host, port) ==
    HealthCheckResult("DNS/Port Connectivity", "error", "Connection timeout to ",
                      "", <<host, port>>,
                      [accessible |-> FALSE, timeout |-> timeout])

DNSSuccess(host, port) ==
    HealthCheckResult("DNS/Port Connectivity", "success",
                      "Successfully connected to ", "", <<host, port>>,
                      [accessible |-> TRUE])

DNSError(host, port, error) ==
    HealthCheckResult("DNS/Port Connectivity", "error", "Failed to connect to ",
                      error.message, <<host, port>>,
                      [accessible |-> FALSE,
                       error |-> IF error.code # "" THEN error.code ELSE "Unknown error"])

DnsIdle ==
    [ pc |-> "idle", socket |-> "none", timer |-> "none", resolveCalls |-> 0,
      event |-> "none", host |-> Undefined, port |-> NumUndefined ]

\* a variant that opens the connection outside the promise executor, so that
\* the exception of createConnection leaves checkDNSPort itself
StartCheckDNSPortThrows(hostname, port, e) ==
    IF DNSSkipped(hostname, port, e)
    THEN [p |-> Fulfilled(Null), st |-> [DnsIdle EXCEPT !.pc = "skipped"]]
    ELSE LET h == testHost(hostname, e)
             q == testPort(port, e)
         IN  IF CreateConnectionThrows(q)
             THEN [p |-> Thrown(Fault("Port should be >= 0 and < 65536")),
                   st |-> [DnsIdle EXCEPT !.pc = "done", !.host = h, !.port = q]]
             ELSE [p |-> Pending,
                   st |-> [DnsIdle EXCEPT !.pc = "wait", !.socket = "connecting",
                                          !.timer = "pending", !.host = h, !.port = q]]

\* checkDNSPort(hostname, port) up to its return: the gate, then the executor
\* of the promise (createConnection, setTimeout, the two socket.on)
StartCheckDNSPort(hostname, port, e) ==
    IF DNSSkipped(hostname, port, e)
    THEN [p |-> Fulfilled(Null), st |-> [DnsIdle EXCEPT !.pc = "skipped"]]
    ELSE LET h == testHost(hostname, e)
             q == testPort(port, e)
         IN  IF CreateConnectionThrows(q)
             THEN [p |-> Rejected(Fault("Port should be >= 0 and < 65536")),
                   st |-> [DnsIdle EXCEPT !.pc = "done", !.host = h, !.port = q]]
             ELSE [p |-> Pending,
                   st |-> [DnsIdle EXCEPT !.pc = "wait", !.socket = "connecting",
                                          !.timer = "pending", !.host = h, !.port = q]]

----------------------------------------------------------------------------
(* runAllHealthChecks and GET                                              *)

Indices == 0 .. 4

services ==
    [ i \in Indices |->
        CASE i = 0 -> "Application Port"
          [] i = 1 -> "PostgreSQL Database"
          [] i = 2 -> "AWS S3"
          [] i = 3 -> "AWS SES"
          [] i = 4 -> "DNS/Port Connectivity" ]

\* variant: the outcomes in the order in which the promises settled
AllSettledInCompletionOrder == [i \in Indices |-> promise[settleOrder[i + 1]]]

\* the array Promise.allSettled resolves to: the outcome of the i-th promise
\* at position i, whatever the order of settlement
AllSettledResults == [i \in Indices |-> promise[i]]

\* variant: a rejection is reported under the name of the next check
ProcessResultShiftedName(result, index) ==
    IF result.state = "fulfilled"
    THEN IF result.value # Null THEN <<result.value>> ELSE <<>>
    ELSE << [ service |-> services[(index + 1) % 5],
              status |-> "error",
              message |-> [text |-> "Health check failed: ",
                           err |-> ErrorMessage(result.reason),
                           vals |-> <<>>] ] >>

\* variant: a skipped check is reported as a failure
ProcessResultNullAsError(result, index) ==
    IF result.state = "fulfilled" /\ result.value # Null
    THEN <<result.value>>
    ELSE << [ service |-> services[index],
              status |-> "error",
              message |-> [text |-> "Health check failed: ",
                           err |-> IF result.state = "rejected"
                                   THEN ErrorMessage(result.reason)
                                   ELSE "Unknown error",
                           vals |-> <<>>] ] >>

\* variant: the value of a fulfilled check is pushed without the null test
ProcessResultPushesNull(result, index) ==
    IF result.state = "fulfilled"
    THEN <<result.value>>
    ELSE << [ service |-> services[index],
              status |-> "error",
              message |-> [text |-> "Health check failed: ",
                           err |-> ErrorMessage(result.reason),
                           vals |-> <<>>] ] >>

\* what the forEach callback pushes for one settled outcome
ProcessResult(result, index) ==
    IF result.state = "fulfilled"
    THEN IF result.value # Null THEN <<result.value>> ELSE <<>>
    ELSE << [ service |-> services[index],
              status |-> "error",
              message |-> [text |-> "Health check failed: ",
                           err |-> ErrorMessage(result.reason),
                           vals |-> <<>>] ] >>

RECURSIVE ForEachReplacing(_, _)
\* variant: the entry of a rejection replaces the list built so far
ForEachReplacing(results, i) ==
    IF i \notin Indices THEN <<>>
    ELSE IF \E j \in Indices : j > i /\ results[j].state = "rejected"
         THEN ForEachReplacing(results, i + 1)
         ELSE ProcessResult(results[i], i) \o ForEachReplacing(results, i + 1)

RECURSIVE ForEachInSettleOrder(_, _)
\* variant: the outcomes are processed in the order in which they settled
ForEachInSettleOrder(results, i) ==
    IF i \notin Indices THEN <<>>
    ELSE ProcessResult(results[settleOrder[i + 1]], settleOrder[i + 1])
            \o ForEachInSettleOrder(results, i + 1)

RECURSIVE ForEachFrom(_, _)
\* results.forEach(...) from index i on: the entries pushed, in order
ForEachFrom(results, i) ==
    IF i \notin Indices THEN <<>>
    ELSE ProcessResult(results[i], i) \o ForEachFrom(results, i + 1)

CountStatus(list, st) == Cardinality({k \in 1 .. Len(list) : list[k].status = st})

\* result.status === 'error' for some result
hasErrors(list) == \E k \in 1 .. Len(list) : list[k].status = "error"

\* variant: the total is the number of declared checks
GETResponseTotalDeclared(healthCheckResults) ==
    [ sent |-> TRUE,
      httpStatus |-> IF hasErrors(healthCheckResults) THEN 503 ELSE 200,
      status |-> IF hasErrors(healthCheckResults) THEN "unhealthy" ELSE "healthy",
      checks |-> healthCheckResults,
      summary |-> [ total |-> Cardinality(Indices),
                    passed |-> CountStatus(healthCheckResults, "success"),
                    failed |-> CountStatus(healthCheckResults, "error") ] ]

\* variant: the HTTP status does not follow the overall status
GETResponseAlwaysOk(healthCheckResults) ==
    [ sent |-> TRUE,
      httpStatus |-> 200,
      status |-> IF hasErrors(healthCheckResults) THEN "unhealthy" ELSE "healthy",
      checks |-> healthCheckResults,
      summary |-> [ total |-> Len(healthCheckResults),
                    passed |-> CountStatus(healthCheckResults, "success"),
                    failed |-> CountStatus(healthCheckResults, "error") ] ]

\* the response GET builds from healthCheckResults (the timestamp is left out)
GETResponse(healthCheckResults) ==
    [ sent |-> TRUE,
      httpStatus |-> IF hasErrors(healthCheckResults) THEN 503 ELSE 200,
      status |-> IF hasErrors(healthCheckResults) THEN "unhealthy" ELSE "healthy",
      checks |-> healthCheckResults,
      summary |-> [ total |-> Len(healthCheckResults),
                    passed |-> CountStatus(healthCheckResults, "success"),
                    failed |-> CountStatus(healthCheckResults, "error") ] ]

----------------------------------------------------------------------------
(* The state machine.                                                      *)

NotStarted == [state |-> "none"]

NoPrevious == [done |-> FALSE]

NoRequest == [valid |-> FALSE, service |-> Undefined]

Init ==
    /\ env \in Envs
    /\ entry = "none"
    /\ args = [hostname |-> Undefined, port |-> NumUndefined]
    /\ promise = [i \in Indices |-> NotStarted]
    /\ settleOrder = <<>>
    /\ db = DbIdle
    /\ s3 = AwsIdle
    /\ ses = AwsIdle
    /\ dns = DnsIdle
    /\ run = [pc |-> "idle", processedResults |-> <<>>]
    /\ response = [sent |-> FALSE]
    /\ calls = [i \in Indices |-> 0]
    /\ prev = NoPrevious
    /\ request = NoRequest

IsSettled(p) == p.state \in {"fulfilled", "rejected"}

\* the indices of ps that are settled, in increasing order
RECURSIVE SettledFrom(_, _)
SettledFrom(ps, i) ==
    IF i \notin Indices THEN <<>>
    ELSE (IF IsSettled(ps[i]) THEN <<i>> ELSE <<>>) \o SettledFrom(ps, i + 1)

\* promise i takes the state p; its settlement is recorded
SettlePromise(i, p) ==
    /\ promise' = [promise EXCEPT ![i] = p]
    /\ settleOrder' = IF IsSettled(p) /\ ~IsSettled(promise[i])
                       THEN Append(settleOrder, i) ELSE settleOrder

\* runAllHealthChecks() up to its await: the array of five promises is built
\* (every check runs up to its first suspension point) and handed to
\* Promise.allSettled; before counts the calls made so far in this invocation
StartRunAllHealthChecks(before) ==
    /\ LET d == StartCheckDatabase(env)
           b == StartCheckS3(env)
           m == StartCheckSES(env)
           n == StartCheckDNSPort(Undefined, NumUndefined, env)
           ps == [i \in Indices |->
                    CASE i = 0 -> Fulfilled(checkPort(env))
                      [] i = 1 -> d.p
                      [] i = 2 -> b.p
                      [] i = 3 -> m.p
                      [] i = 4 -> n.p]
       IN  /\ promise' = ps
           /\ settleOrder' = SettledFrom(ps, 0)
           /\ db' = d.st
           /\ s3' = b.st
           /\ ses' = m.st
           /\ dns' = n.st
           /\ run' = IF \E i \in Indices : ps[i].state = "thrown"
                     THEN LET i == CHOOSE j \in Indices : ps[j].state = "thrown"
                          IN  [pc |-> "rejected", processedResults |-> <<>>,
                               reason |-> ps[i].reason]
                     ELSE [pc |-> "await", processedResults |-> <<>>]
    /\ calls' = [i \in Indices |-> before[i] + 1]

\* GET calls runAllHealthChecks() and awaits it
GET ==
    /\ entry = "none"
    /\ entry' = "GET"
    /\ StartRunAllHealthChecks(calls)
    /\ UNCHANGED <<env, request, prev, args, response>>

\* the bodies a POST request may carry: not JSON, {}, {service: ...}
Bodies ==
    { NoRequest,
      [valid |-> TRUE, service |-> Undefined],
      [valid |-> TRUE, service |-> Str(<<"d", "b">>)] }

\* POST: await request.json() throws for an invalid body (400), a named
\* service is answered with 501, otherwise runAllHealthChecks() is awaited
POST ==
    /\ entry = "none"
    /\ entry' = "POST"
    /\ \E body \in Bodies :
         /\ request' = body
         /\ IF ~body.valid
            THEN /\ response' = [sent |-> TRUE, httpStatus |-> 400, status |-> "error",
                                 message |-> "Invalid request"]
                 /\ UNCHANGED <<promise, settleOrder, db, s3, ses, dns, run, calls>>
            ELSE IF Truthy(body.service)
            THEN /\ response' = [sent |-> TRUE, httpStatus |-> 501,
                                 requestedService |-> body.service]
                 /\ UNCHANGED <<promise, settleOrder, db, s3, ses, dns, run, calls>>
            ELSE /\ StartRunAllHealthChecks(calls)
                 /\ UNCHANGED response
    /\ UNCHANGED <<env, prev, args>>

\* a caller invokes the exported checkDNSPort(hostname, port) directly
CallCheckDNSPort ==
    /\ entry = "none"
    /\ \E hostname \in HostArgs, port \in PortArgs :
         LET n == StartCheckDNSPort(hostname, port, env) IN
         /\ args' = [hostname |-> hostname, port |-> port]
         /\ SettlePromise(4, n.p)
         /\ dns' = n.st
    /\ entry' = "checkDNSPort"
    /\ calls' = [calls EXCEPT ![4] = @ + 1]
    /\ UNCHANGED <<env, request, prev, db, s3, ses, run, response>>

DbErrors == {Fault("connect ECONNREFUSED")}
QueryErrors == {Fault("canceling statement")}
EndErrors == {Fault("Connection terminated")}
AwsErrors == {Fault("AccessDenied")}
SocketErrors == {[isError |-> TRUE, message |-> "connect ECONNREFUSED", code |-> "ECONNREFUSED"]}

\* await client.connect() resolves; client.query(...) is issued
DbConnectResolves ==
    /\ db.pc = "connect"
    /\ db' = [db EXCEPT !.pc = "query", !.open = TRUE]
    /\ UNCHANGED <<env, request, calls, prev, entry, args, promise, settleOrder, s3, ses, dns, run, response>>

\* variant: a failed connection attempt is retried once
DbConnectRejectsRetries ==
    /\ db.pc = "connect"
    /\ IF calls[1] < 2
       THEN /\ calls' = [calls EXCEPT ![1] = @ + 1]
            /\ UNCHANGED <<promise, settleOrder, db>>
       ELSE /\ \E error \in DbErrors : SettlePromise(1, Fulfilled(DatabaseError(error)))
            /\ db' = [db EXCEPT !.pc = "done"]
            /\ UNCHANGED calls
    /\ UNCHANGED <<env, request, prev, entry, args, s3, ses, dns, run, response>>

\* await client.connect() rejects; the catch block returns the error result
DbConnectRejects ==
    /\ db.pc = "connect"
    /\ \E error \in DbErrors : SettlePromise(1, Fulfilled(DatabaseError(error)))
    /\ db' = [db EXCEPT !.pc = "done"]
    /\ UNCHANGED <<env, request, calls, prev, entry, args, s3, ses, dns, run, response>>

\* await client.query(...) resolves with rows; client.end() is issued
DbQueryResolves ==
    /\ db.pc = "query"
    /\ \E rows \in {0, 1} : db' = [db EXCEPT !.pc = "end", !.ended = TRUE, !.rows = rows]
    /\ UNCHANGED <<env, request, calls, prev, entry, args, promise, settleOrder, s3, ses, dns, run, response>>

\* await client.query(...) rejects; the catch block returns the error result
DbQueryRejects ==
    /\ db.pc = "query"
    /\ \E error \in QueryErrors : SettlePromise(1, Fulfilled(DatabaseError(error)))
    /\ db' = [db EXCEPT !.pc = "done"]
    /\ UNCHANGED <<env, request, calls, prev, entry, args, s3, ses, dns, run, response>>

\* await client.end() resolves; the success result reads result.rows[0],
\* which throws when the query returned no row
DbEndResolves ==
    /\ db.pc = "end"
    /\ SettlePromise(1, Fulfilled(
           IF db.rows = 0
           THEN DatabaseError(Fault("Cannot read properties of undefined"))
           ELSE DatabaseSuccess))
    /\ db' = [db EXCEPT !.pc = "done", !.open = FALSE]
    /\ UNCHANGED <<env, request, calls, prev, entry, args, s3, ses, dns, run, response>>

\* await client.end() rejects
DbEndRejects ==
    /\ db.pc = "end"
    /\ \E error \in EndErrors : SettlePromise(1, Fulfilled(DatabaseError(error)))
    /\ db' = [db EXCEPT !.pc = "done"]
    /\ UNCHANGED <<env, request, calls, prev, entry, args, s3, ses, dns, run, response>>

S3SendResolves ==
    /\ s3.pc = "send"
    /\ SettlePromise(2, Fulfilled(S3Success))
    /\ s3' = [s3 EXCEPT !.pc = "done"]
    /\ UNCHANGED <<env, request, calls, prev, entry, args, db, ses, dns, run, response>>

S3SendRejects ==
    /\ s3.pc = "send"
    /\ \E error \in AwsErrors : SettlePromise(2, Fulfilled(S3Error(error)))
    /\ s3' = [s3 EXCEPT !.pc = "done"]
    /\ UNCHANGED <<env, request, calls, prev, entry, args, db, ses, dns, run, response>>

SESSendResolves ==
    /\ ses.pc = "send"
    /\ \E verificationStatus \in {"Success", "Pending"} :
         SettlePromise(3, Fulfilled(SESSuccess(verificationStatus)))
    /\ ses' = [ses EXCEPT !.pc = "done"]
    /\ UNCHANGED <<env, request, calls, prev, entry, args, db, s3, dns, run, response>>

SESSendRejects ==
    /\ ses.pc = "send"
    /\ \E error \in AwsErrors : SettlePromise(3, Fulfilled(SESError(error)))
    /\ ses' = [ses EXCEPT !.pc = "done"]
    /\ UNCHANGED <<env, request, calls, prev, entry, args, db, s3, dns, run, response>>

\* variant: the timer callback resolves without destroying the socket
TimerFiresNoDestroy ==
    /\ dns.timer = "pending"
    /\ SettlePromise(4, Resolve(promise[4], DNSTimeout(dns.host, dns.port)))
    /\ dns' = [dns EXCEPT !.pc = "done", !.timer = "fired", !.event = "timeout",
                          !.resolveCalls = @ + 1]
    /\ UNCHANGED <<env, request, calls, prev, entry, args, db, s3, ses, run, response>>

\* the setTimeout callback: socket.destroy(), resolve(timeout result)
TimerFires ==
    /\ dns.timer = "pending"
    /\ SettlePromise(4, Resolve(promise[4], DNSTimeout(dns.host, dns.port)))
    /\ dns' = [dns EXCEPT !.pc = "done", !.timer = "fired", !.socket = "destroyed",
                          !.event = "timeout", !.resolveCalls = @ + 1]
    /\ UNCHANGED <<env, request, calls, prev, entry, args, db, s3, ses, run, response>>

\* variant: the 'connect' handler leaves the timer running
SocketConnectNoClear ==
    /\ dns.socket = "connecting"
    /\ SettlePromise(4, Resolve(promise[4], DNSSuccess(dns.host, dns.port)))
    /\ dns' = [dns EXCEPT !.pc = "done", !.socket = "destroyed",
                          !.event = "connect", !.resolveCalls = @ + 1]
    /\ UNCHANGED <<env, request, calls, prev, entry, args, db, s3, ses, run, response>>

\* the 'connect' handler: clearTimeout, socket.destroy(), resolve(success)
SocketConnect ==
    /\ dns.socket = "connecting"
    /\ SettlePromise(4, Resolve(promise[4], DNSSuccess(dns.host, dns.port)))
    /\ dns' = [dns EXCEPT !.pc = "done", !.socket = "destroyed",
                          !.timer = IF @ = "pending" THEN "cleared" ELSE @,
                          !.event = "connect", !.resolveCalls = @ + 1]
    /\ UNCHANGED <<env, request, calls, prev, entry, args, db, s3, ses, run, response>>

\* variant: an error only closes the socket and the result is left to the timer
SocketErrorWaits ==
    /\ dns.socket = "connecting"
    /\ dns' = [dns EXCEPT !.socket = "destroyed", !.event = "error"]
    /\ UNCHANGED <<env, request, calls, prev, entry, args, promise, settleOrder, db, s3, ses, run, response>>

\* the 'error' handler: clearTimeout, socket.destroy(), resolve(error result)
SocketError ==
    /\ dns.socket = "connecting"
    /\ \E error \in SocketErrors :
         SettlePromise(4, Resolve(promise[4], DNSError(dns.host, dns.port, error)))
    /\ dns' = [dns EXCEPT !.pc = "done", !.socket = "destroyed",
                          !.timer = IF @ = "pending" THEN "cleared" ELSE @,
                          !.event = "error", !.resolveCalls = @ + 1]
    /\ UNCHANGED <<env, request, calls, prev, entry, args, db, s3, ses, run, response>>

\* Promise.allSettled resolves once every promise has settled;
\* runAllHealthChecks builds processedResults and returns it
RunAllReturns ==
    /\ run.pc = "await"
    /\ \A i \in Indices : IsSettled(promise[i])
    /\ run' = [pc |-> "returned", processedResults |-> ForEachFrom(AllSettledResults, 0)]
    /\ UNCHANGED <<env, request, calls, prev, entry, args, promise, settleOrder, db, s3, ses, dns, response>>

\* the response of GET's catch block (the timestamp is left out)
GETFailure(error) ==
    [ sent |-> TRUE,
      httpStatus |-> 500,
      status |-> "error",
      message |-> "Health check system failure",
      error |-> ErrorMessage(error) ]

\* GET resumes after await runAllHealthChecks(): it sends the report, or the
\* answer of its catch block when runAllHealthChecks rejected
GETResponds ==
    /\ entry = "GET"
    /\ run.pc \in {"returned", "rejected"}
    /\ ~response.sent
    /\ response' = IF run.pc = "returned"
                   THEN GETResponse(run.processedResults)
                   ELSE GETFailure(run.reason)
    /\ UNCHANGED <<env, request, calls, prev, entry, args, promise, settleOrder, db, s3, ses, dns, run>>

\* the response POST builds from healthCheckResults (the timestamp is left out)
POSTResponse(healthCheckResults) ==
    [ sent |-> TRUE,
      httpStatus |-> IF hasErrors(healthCheckResults) THEN 503 ELSE 200,
      status |-> IF hasErrors(healthCheckResults) THEN "unhealthy" ELSE "healthy",
      checks |-> healthCheckResults ]

\* the response of POST's catch block (the timestamp is left out)
POSTFailure(error) ==
    [ sent |-> TRUE,
      httpStatus |-> 400,
      status |-> "error",
      message |-> "Invalid request",
      error |-> ErrorMessage(error) ]

\* POST resumes after await runAllHealthChecks(): it sends its answer, or the
\* answer of its catch block when runAllHealthChecks rejected
POSTResponds ==
    /\ entry = "POST"
    /\ run.pc \in {"returned", "rejected"}
    /\ ~response.sent
    /\ response' = IF run.pc = "returned"
                   THEN POSTResponse(run.processedResults)
                   ELSE POSTFailure(run.reason)
    /\ UNCHANGED <<env, request, calls, prev, entry, args, promise, settleOrder, db, s3, ses, dns, run>>

Next ==
    \/ GET
    \/ CallCheckDNSPort
    \/ DbConnectResolves
    \/ DbConnectRejects
    \/ DbQueryResolves
    \/ DbQueryRejects
    \/ DbEndResolves
    \/ DbEndRejects
    \/ S3SendResolves
    \/ S3SendRejects
    \/ SESSendResolves
    \/ SESSendRejects
    \/ TimerFires
    \/ SocketConnect
    \/ SocketError
    \/ RunAllReturns
    \/ GETResponds

Spec == Init /\ [][Next]_vars

\* the handlers of /api/health together: GET and POST
NextWithPOST ==
    \/ Next
    \/ POST
    \/ POSTResponds

SpecWithPOST == Init /\ [][NextWithPOST]_vars

\* two configurations for a repeated request: one without the database
\* variables, one without the sender address
TwiceEnvs ==
    { [ PORT |-> Undefined,
        DB_HOST |-> SomeHost, DB_NAME |-> SomeHost,
        DB_USERNAME |-> SomeHost, DB_PASSWORD |-> Undefined,
        S3_BUCKET_NAME |-> SomeHost, SES_FROM_EMAIL |-> SomeHost,
        DNS_CHECK_HOST |-> SomeHost, DNS_CHECK_PORT |-> Str(<<"4", "4", "3">>) ],
      [ PORT |-> Undefined,
        DB_HOST |-> SomeHost, DB_NAME |-> SomeHost,
        DB_USERNAME |-> SomeHost, DB_PASSWORD |-> SomeHost,
        S3_BUCKET_NAME |-> SomeHost, SES_FROM_EMAIL |-> Undefined,
        DNS_CHECK_HOST |-> SomeHost, DNS_CHECK_PORT |-> Str(<<"4", "4", "3">>) ] }

InitTwice == Init /\ env \in TwiceEnvs

\* a second GET request in the same process, after the first was answered:
\* what the first one saw and sent is kept for comparison
GETAgain ==
    /\ entry = "GET"
    /\ response.sent
    /\ ~prev.done
    /\ prev' = [ done |-> TRUE, promise |-> promise, order |-> settleOrder,
                 db |-> db, dns |-> dns, response |-> response ]
    /\ response' = [sent |-> FALSE]
    /\ StartRunAllHealthChecks([i \in Indices |-> 0])
    /\ UNCHANGED <<env, request, entry, args>>

NextTwice ==
    \/ Next
    \/ GETAgain

SpecTwice == InitTwice /\ [][NextTwice]_vars

\* What the scheduling of the code guarantees: a pending timer fires, a
\* continuation whose awaited promise has settled runs.  No dependency is
\* obliged to answer.
FairSpec ==
    /\ Spec
    /\ WF_vars(TimerFires)
    /\ WF_vars(RunAllReturns)
    /\ WF_vars(GETResponds)

----------------------------------------------------------------------------
(* Properties.                                                             *)

\* the positions of list whose service is name
EntriesOf(list, name) == {k \in 1 .. Len(list) : list[k].service = name}

\* the name each check uses in the results it builds itself
OwnName(i) ==
    CASE i = 0 -> checkPort(env).service
      [] i = 1 -> DatabaseSuccess.service
      [] i = 2 -> S3Success.service
      [] i = 3 -> SESSuccess("Success").service
      [] i = 4 -> DNSSuccess(DefaultHost, Num(80)).service

\* the position of a service name in the declaration order
DeclaredPosition(name) == CHOOSE i \in Indices : OwnName(i) = name

ResolvedToNull(i) == promise[i].state = "fulfilled" /\ promise[i].value = Null

Returned == run.pc = "returned"

\* C1: when runAllHealthChecks has returned, every check that did not resolve
\* to null has exactly one entry in the list, a skipped check has none, the
\* entry of a fulfilled check is the very result it resolved to, and the list
\* holds nothing else -- whatever the other checks did and in whatever order
\* they settled.
C1_JoinAllSettled ==
    Returned =>
        /\ \A i \in Indices :
              /\ Cardinality(EntriesOf(run.processedResults, OwnName(i)))
                    = IF ResolvedToNull(i) THEN 0 ELSE 1
              /\ (promise[i].state = "fulfilled" /\ ~ResolvedToNull(i))
                    => \E k \in 1 .. Len(run.processedResults) :
                          run.processedResults[k] = promise[i].value
        /\ Len(run.processedResults)
              = Cardinality({i \in Indices : ~ResolvedToNull(i)})

\* a batch in which one check was rejected, another resolved to an error
\* result, and the checks did not settle in declaration order
C1_Witness ==
    /\ Returned
    /\ promise[4].state = "rejected"
    /\ promise[1].state = "fulfilled" /\ ~ResolvedToNull(1)
    /\ promise[1].value.status = "error"
    /\ promise[2].state = "fulfilled" /\ ~ResolvedToNull(2)
    /\ promise[3].state = "fulfilled" /\ ~ResolvedToNull(3)
    /\ settleOrder = <<0, 4, 3, 1, 2>>

\* C2: the returned list is in declaration order: its service names are those
\* of the checks that did not resolve to null, at increasing declared
\* positions, for every order of settlement.
C2_DeclarationOrder ==
    Returned =>
        /\ {run.processedResults[k].service : k \in 1 .. Len(run.processedResults)}
              = {OwnName(i) : i \in {j \in Indices : ~ResolvedToNull(j)}}
        /\ \A k, l \in 1 .. Len(run.processedResults) :
              k < l => DeclaredPosition(run.processedResults[k].service)
                         < DeclaredPosition(run.processedResults[l].service)

\* all five checks reported although they settled in the order
\* port, DNS, SES, S3, database
C2_Witness ==
    /\ Returned
    /\ Len(run.processedResults) = 5
    /\ settleOrder = <<0, 4, 3, 2, 1>>

\* C3: a rejected check has exactly one entry; it has status 'error', the
\* name the check itself uses and the generic message with the reason.
C3_RejectionReported ==
    Returned =>
        \A i \in Indices :
            promise[i].state = "rejected" =>
                /\ Cardinality(EntriesOf(run.processedResults, OwnName(i))) = 1
                /\ \A k \in EntriesOf(run.processedResults, OwnName(i)) :
                      /\ run.processedResults[k].status = "error"
                      /\ run.processedResults[k].message.text = "Health check failed: "
                      /\ run.processedResults[k].message.err = promise[i].reason.message
                /\ Cardinality({k \in 1 .. Len(run.processedResults) :
                                  run.processedResults[k].message.text
                                      = "Health check failed: "}) = 1

\* createConnection threw for the configured port and the batch returned
C3_Witness ==
    /\ Returned
    /\ promise[4].state = "rejected"
    /\ Len(run.processedResults) >= 2

\* a variable that is not set at all
Absent(v) == ~v.def

\* a variable that is unset or empty
UnsetOrEmpty(v) == ~v.def \/ Len(v.chars) = 0

\* the services whose configuration is fully absent
AbsentServices ==
    (IF /\ Absent(env.DB_HOST) /\ Absent(env.DB_NAME)
        /\ Absent(env.DB_USERNAME) /\ Absent(env.DB_PASSWORD)
     THEN {"PostgreSQL Database"} ELSE {})
    \cup (IF Absent(env.S3_BUCKET_NAME) THEN {"AWS S3"} ELSE {})
    \cup (IF Absent(env.SES_FROM_EMAIL) THEN {"AWS SES"} ELSE {})
    \cup (IF /\ Absent(env.DNS_CHECK_HOST) /\ Absent(env.DNS_CHECK_PORT)
             /\ Absent(args.hostname) /\ Absent(args.port)
          THEN {"DNS/Port Connectivity"} ELSE {})

\* C4: a check whose configuration is fully absent resolves to null, has no
\* entry in the returned list or in the report, and is counted neither in
\* total nor in failed.
C4_AbsentNeverReported ==
    /\ entry = "GET" =>
          \A i \in Indices : OwnName(i) \in AbsentServices => ResolvedToNull(i)
    /\ (entry = "checkDNSPort" /\ "DNS/Port Connectivity" \in AbsentServices)
          => ResolvedToNull(4)
    /\ Returned =>
          \A name \in AbsentServices : EntriesOf(run.processedResults, name) = {}
    /\ response.sent =>
          /\ \A name \in AbsentServices : EntriesOf(response.checks, name) = {}
          /\ response.summary.total
                = Cardinality({k \in 1 .. Len(response.checks) :
                                 response.checks[k].service \notin AbsentServices})
          /\ response.summary.failed
                = Cardinality({k \in 1 .. Len(response.checks) :
                                 /\ response.checks[k].service \notin AbsentServices
                                 /\ response.checks[k].status = "error"})

\* a report of a run without any database variable in which another check failed
C4_Witness ==
    /\ response.sent
    /\ AbsentServices = {"PostgreSQL Database", "DNS/Port Connectivity"}
    /\ response.summary.failed = 1
    /\ response.summary.total = 3

\* C5: when one of DB_HOST, DB_NAME, DB_USERNAME, DB_PASSWORD is unset or
\* empty, checkDatabase resolves to null, no client is created, no connection
\* is opened, and the list has no 'PostgreSQL Database' entry.
C5_DatabaseAllOrNothing ==
    ( /\ entry = "GET"
      /\ \/ UnsetOrEmpty(env.DB_HOST) \/ UnsetOrEmpty(env.DB_NAME)
         \/ UnsetOrEmpty(env.DB_USERNAME) \/ UnsetOrEmpty(env.DB_PASSWORD) )
    => /\ ResolvedToNull(1)
       /\ ~db.client
       /\ ~db.open
       /\ Returned => EntriesOf(run.processedResults, "PostgreSQL Database") = {}
       /\ response.sent => EntriesOf(response.checks, "PostgreSQL Database") = {}

\* the host, the name and the user are set, the password is not, and the
\* report was sent
C5_Witness ==
    /\ response.sent
    /\ Truthy(env.DB_HOST) /\ Truthy(env.DB_NAME) /\ Truthy(env.DB_USERNAME)
    /\ Absent(env.DB_PASSWORD)
    /\ Len(response.checks) >= 2

\* no host or port is supplied, neither at call time nor by the environment
NothingSupplied ==
    /\ (Absent(args.hostname) \/ Len(args.hostname.chars) = 0)
    /\ (Absent(args.port) \/ args.port.nan \/ args.port.n = 0)
    /\ UnsetOrEmpty(env.DNS_CHECK_HOST)
    /\ UnsetOrEmpty(env.DNS_CHECK_PORT)

\* both fields are supplied at call time, or both by the environment
FullyResolved ==
    \/ ~Absent(args.hostname) /\ ~Absent(args.port)
    \/ ~UnsetOrEmpty(env.DNS_CHECK_HOST) /\ ~UnsetOrEmpty(env.DNS_CHECK_PORT)

\* C6 (as stated): checkDNSPort runs only when both host and port are given at
\* call time or both DNS_CHECK_HOST and DNS_CHECK_PORT are set; with only one
\* of them it is skipped.
C6_RunsOnlyIfFullyResolved ==
    entry # "none" => (dns.pc # "skipped" => FullyResolved)

\* C6 (amended): checkDNSPort is skipped, resolving to null without a socket
\* or a timer, exactly when neither a call-time host or port nor
\* DNS_CHECK_HOST or DNS_CHECK_PORT is supplied; as soon as one of them is
\* supplied it is not skipped and calls createConnection, a missing host
\* being replaced by google.com.
C6_SkippedIffNothingSupplied ==
    entry # "none" =>
        /\ dns.pc = "skipped" <=> NothingSupplied
        /\ NothingSupplied =>
              /\ ResolvedToNull(4)
              /\ dns.socket = "none"
              /\ dns.timer = "none"
        /\ ~NothingSupplied =>
              /\ ~ResolvedToNull(4)
              /\ promise[4].state = "rejected" \/ dns.socket # "none"
              /\ (Absent(args.hostname) /\ Absent(env.DNS_CHECK_HOST))
                    => dns.host = DefaultHost

\* only DNS_CHECK_PORT is set and the check is connecting to google.com
C6_Witness ==
    /\ entry = "GET"
    /\ Absent(env.DNS_CHECK_HOST)
    /\ env.DNS_CHECK_PORT = Str(<<"4", "4", "3">>)
    /\ dns.socket = "connecting"
    /\ dns.timer = "pending"
    /\ dns.host = DefaultHost
    /\ dns.port = Num(443)

\* only PORT is set
OnlyListenPort ==
    /\ ~Absent(env.PORT)
    /\ Absent(env.DB_HOST) /\ Absent(env.DB_NAME)
    /\ Absent(env.DB_USERNAME) /\ Absent(env.DB_PASSWORD)
    /\ Absent(env.S3_BUCKET_NAME) /\ Absent(env.SES_FROM_EMAIL)
    /\ Absent(env.DNS_CHECK_HOST) /\ Absent(env.DNS_CHECK_PORT)

\* C7: the returned list is never empty and starts with the successful
\* 'Application Port' entry; when only PORT is configured it has that entry
\* alone and the report is healthy with summary {total 1, passed 1, failed 0}.
C7_SelfReportFirst ==
    /\ Returned =>
          /\ Len(run.processedResults) >= 1
          /\ run.processedResults[1].service = "Application Port"
          /\ run.processedResults[1].status = "success"
    /\ (response.sent /\ OnlyListenPort) =>
          /\ Len(response.checks) = 1
          /\ response.status = "healthy"
          /\ response.summary = [total |-> 1, passed |-> 1, failed |-> 0]

\* PORT is unset, every other check failed, and the list was returned
C7_Witness ==
    /\ Returned
    /\ Absent(env.PORT)
    /\ Len(run.processedResults) = 5
    /\ \A k \in 2 .. 5 : run.processedResults[k].status = "error"

\* the report of a run in which only PORT is configured
C7_WitnessOnlyPort == response.sent /\ OnlyListenPort

\* C8: in every report summary.total is the length of checks and
\* summary.passed + summary.failed is summary.total.
C8_SummaryCounts ==
    response.sent =>
        /\ response.summary.total = Len(response.checks)
        /\ response.summary.passed + response.summary.failed = response.summary.total

\* a report with two failed and two passed checks, one check being skipped
C8_Witness ==
    /\ response.sent
    /\ response.summary.failed = 2
    /\ response.summary.passed = 2
    /\ Len(response.checks) = 4

\* C9: in every report status is 'unhealthy' exactly when summary.failed > 0
\* and 'healthy' otherwise; the HTTP status is 503 exactly when the status is
\* 'unhealthy' and 200 exactly when it is 'healthy'.
C9_StatusFollowsFailed ==
    response.sent =>
        /\ response.status \in {"healthy", "unhealthy"}
        /\ response.status = "unhealthy" <=> response.summary.failed > 0
        /\ response.httpStatus = 503 <=> response.status = "unhealthy"
        /\ response.httpStatus = 200 <=> response.status = "healthy"

\* an unhealthy report answered with 503
C9_Witness ==
    /\ response.sent
    /\ response.httpStatus = 503
    /\ response.summary.failed >= 1
    /\ response.summary.passed >= 1

\* C10: every invocation of runAllHealthChecks eventually returns and the
\* GET request is answered, even when no dependency ever answers.
C10_EveryInvocationReturns == (entry = "GET") ~> (Returned /\ response.sent)


\* C11: no check propagates a fault past its own boundary: the promises of
\* checkDatabase, checkS3, checkSES and checkDNSPort are never rejected; a
\* fault inside a check that passed its gate fulfils it with an 'error' result.
C11_NoProbeRejects ==
    \A i \in 1 .. 4 : promise[i].state # "rejected"

\* checkDNSPort has delivered a result
DNSResultProduced == promise[4].state = "fulfilled" /\ ~ResolvedToNull(4)

\* C12: in one execution of checkDNSPort the connect handler, the error
\* handler and the timer callback exclude each other: resolve is called at
\* most once, exactly once when the result is there, and from then on neither
\* the timer is pending nor the socket connecting, so no other handler can run.
C12_ResolvedExactlyOnce ==
    /\ dns.resolveCalls <= 1
    /\ DNSResultProduced <=> dns.resolveCalls = 1
    /\ dns.resolveCalls = 1 => (dns.timer # "pending" /\ dns.socket # "connecting")

\* the connection was established while the timer was running
C12_Witness ==
    /\ DNSResultProduced
    /\ promise[4].value.status = "success"
    /\ dns.timer = "cleared"
    /\ dns.resolveCalls = 1

\* C13: once checkDatabase has returned its result, a connection that
\* client.connect() opened has been closed with client.end(), also when the
\* query failed.
C13_ConnectionClosedBeforeReturn ==
    (IsSettled(promise[1]) /\ db.pc = "done" /\ db.open) => db.ended


\* C16: once checkDNSPort has delivered its result, whether success, error
\* or timeout, the socket is destroyed and the timer is no longer pending.
C16_ResourcesReleased ==
    DNSResultProduced =>
        /\ dns.socket = "destroyed"
        /\ dns.timer \in {"fired", "cleared"}

\* the timeout result was delivered
C16_Witness ==
    /\ DNSResultProduced
    /\ dns.event = "timeout"
    /\ dns.socket = "destroyed"

\* C17: the timeout result is delivered only when the timer fires before any
\* socket event; an error event delivers the error result at once, with the
\* timer cleared, a connect event delivers success, and the check is pending
\* only while the timer is pending and no event has occurred.
C17_FirstEventDecides ==
    /\ promise[4].state = "pending" =>
          /\ dns.event = "none"
          /\ dns.timer = "pending"
          /\ dns.socket = "connecting"
    /\ dns.event = "timeout" =>
          /\ DNSResultProduced
          /\ promise[4].value.status = "error"
          /\ promise[4].value.message.text = "Connection timeout to "
          /\ dns.timer = "fired"
    /\ dns.event = "error" =>
          /\ DNSResultProduced
          /\ promise[4].value.status = "error"
          /\ promise[4].value.message.text = "Failed to connect to "
          /\ dns.timer = "cleared"
    /\ dns.event = "connect" =>
          /\ DNSResultProduced
          /\ promise[4].value.status = "success"
          /\ dns.timer = "cleared"
    /\ (DNSResultProduced /\ promise[4].value.message.text = "Connection timeout to ")
          => dns.event = "timeout"

\* the connection attempt failed before the timer fired
C17_Witness ==
    /\ dns.event = "error"
    /\ DNSResultProduced
    /\ dns.timer = "cleared"
    /\ entry = "GET"

\* C19: the returned list has between 1 and 5 entries, none of them null,
\* each with status 'success' or 'error', and no two with the same service.
C19_WellFormedList ==
    Returned =>
        /\ Len(run.processedResults) \in 1 .. 5
        /\ \A k \in 1 .. Len(run.processedResults) : run.processedResults[k] # Null
        /\ \A k \in 1 .. Len(run.processedResults) :
              run.processedResults[k].status \in {"success", "error"}
        /\ \A k, l \in 1 .. Len(run.processedResults) :
              k # l => run.processedResults[k].service # run.processedResults[l].service

\* two checks were skipped, one was rejected, two were fulfilled
C19_Witness ==
    /\ Returned
    /\ Len(run.processedResults) = 3
    /\ promise[4].state = "rejected"
    /\ Cardinality({i \in Indices : ResolvedToNull(i)}) = 2

\* the host the claim expects, a given value being one that is not undefined
ExpectedHostIfGiven ==
    IF ~Absent(args.hostname) THEN args.hostname
    ELSE IF ~UnsetOrEmpty(env.DNS_CHECK_HOST) THEN env.DNS_CHECK_HOST
    ELSE DefaultHost

\* the port the claim expects, a given value being one that is not undefined
ExpectedPortIfGiven ==
    IF ~Absent(args.port) THEN args.port
    ELSE IF ~UnsetOrEmpty(env.DNS_CHECK_PORT) THEN parseInt(env.DNS_CHECK_PORT)
    ELSE Num(80)

\* checkDNSPort passed its gate and resolved its target
TargetResolved == entry # "none" /\ dns.pc \in {"wait", "done"}

\* C20 (as stated): the host is the call-time hostname if given, else
\* DNS_CHECK_HOST if set, else google.com; the port is the call-time port if
\* given, else the parsed DNS_CHECK_PORT if set, else 80.
C20_GivenArgumentOverrides ==
    TargetResolved =>
        /\ dns.host = ExpectedHostIfGiven
        /\ dns.port = ExpectedPortIfGiven

\* C20 (amended): the host is the call-time hostname if it is given and not
\* empty, else DNS_CHECK_HOST if set, else google.com; the port is the
\* call-time port if it is given and not 0, else the parsed DNS_CHECK_PORT
\* if set, else 80.
C20_TruthyArgumentOverrides ==
    TargetResolved =>
        /\ dns.host =
              IF ~Absent(args.hostname) /\ Len(args.hostname.chars) > 0
              THEN args.hostname
              ELSE IF ~UnsetOrEmpty(env.DNS_CHECK_HOST) THEN env.DNS_CHECK_HOST
              ELSE DefaultHost
        /\ dns.port =
              IF ~Absent(args.port) /\ args.port.n # 0 THEN args.port
              ELSE IF ~UnsetOrEmpty(env.DNS_CHECK_PORT)
                   THEN parseInt(env.DNS_CHECK_PORT)
              ELSE Num(80)

\* both arguments and both variables are supplied and the arguments are used
C20_Witness ==
    /\ entry = "checkDNSPort"
    /\ args = [hostname |-> OtherHost, port |-> Num(8080)]
    /\ env.DNS_CHECK_HOST = SomeHost
    /\ env.DNS_CHECK_PORT = Str(<<"4", "4", "3">>)
    /\ dns.host = OtherHost
    /\ dns.port = Num(8080)
    /\ dns.socket = "connecting"


\* C18: within one call of runAllHealthChecks every check function is called
\* exactly once: all five have been called when the batch starts to wait,
\* and none is called again after an error result or a rejection.
C18_EachCheckCalledOnce ==
    /\ entry = "none" => \A i \in Indices : calls[i] = 0
    /\ entry = "GET" => \A i \in Indices : calls[i] = 1
    /\ entry = "checkDNSPort" =>
          \A i \in Indices : calls[i] = IF i = 4 THEN 1 ELSE 0

\* the batch returned after an error result and a rejection
C18_Witness ==
    /\ Returned
    /\ promise[1].state = "fulfilled" /\ ~ResolvedToNull(1)
    /\ promise[1].value.message.err = "connect ECONNREFUSED"
    /\ promise[4].state = "rejected"
    /\ \A i \in Indices : calls[i] = 1


\* C15: POST answers 501 whenever the body names a service; otherwise it
\* answers as GET does for the same results: the same HTTP status and the
\* same status, checks and summary in the body.
C15_POSTBehavesLikeGET ==
    (entry = "POST" /\ request.valid) =>
        /\ Truthy(request.service) => (response.sent /\ response.httpStatus = 501)
        /\ (~Truthy(request.service) /\ response.sent) =>
              /\ response.httpStatus = GETResponse(run.processedResults).httpStatus
              /\ response.status = GETResponse(run.processedResults).status
              /\ response.checks = GETResponse(run.processedResults).checks
              /\ "summary" \in DOMAIN response
              /\ response.summary = GETResponse(run.processedResults).summary


\* the service and status of every entry, in order
Pairs(list) == [k \in 1 .. Len(list) |-> <<list[k].service, list[k].status>>]

\* the dependencies behaved in this run as in the previous one
SameDependencyOutcomes ==
    /\ db = prev.db
    /\ dns.event = prev.dns.event
    /\ promise[2] = prev.promise[2]
    /\ promise[3] = prev.promise[3]

\* C14: two runs of the batch with the same configuration and the same
\* dependency outcomes send the same status, HTTP status, summary and
\* sequence of service/status pairs, whatever the order of settlement in
\* each run.
C14_Deterministic ==
    (prev.done /\ response.sent /\ SameDependencyOutcomes) =>
        /\ response.status = prev.response.status
        /\ response.httpStatus = prev.response.httpStatus
        /\ response.summary = prev.response.summary
        /\ Pairs(response.checks) = Pairs(prev.response.checks)

\* two runs with the same outcomes whose checks settled in different orders
C14_Witness ==
    /\ prev.done
    /\ response.sent
    /\ SameDependencyOutcomes
    /\ settleOrder # prev.order
    /\ Len(response.checks) = 4
    /\ response.summary.failed >= 1


\* check i ended in a fault: its promise rejected, or it fulfilled with an
\* 'error' result of its own
ProbeFault(i) ==
    \/ promise[i].state = "rejected"
    \/ /\ promise[i].state = "fulfilled"
       /\ ~ResolvedToNull(i)
       /\ promise[i].value.status = "error"

\* C21: runAllHealthChecks never rejects: no check throws while the batch is
\* being started, and whatever the checks do GET never answers 500; once GET
\* has answered, every check that faulted or rejected has an 'error' entry
\* under its own name in the report and the answer is 503 'unhealthy'.
C21_NeverSystemFailure ==
    entry = "GET" =>
        /\ run.pc # "rejected"
        /\ \A i \in Indices : promise[i].state # "thrown"
        /\ response.sent =>
              /\ response.httpStatus \in {200, 503}
              /\ \A i \in Indices :
                    ProbeFault(i) =>
                        /\ response.httpStatus = 503
                        /\ response.status = "unhealthy"
                        /\ \E k \in EntriesOf(response.checks, services[i]) :
                              response.checks[k].status = "error"

\* GET answered a batch in which checkDNSPort rejected and checkDatabase
\* caught a fault of its own
C21_Witness ==
    /\ entry = "GET"
    /\ response.sent
    /\ promise[4].state = "rejected"
    /\ promise[1].state = "fulfilled"
    /\ ProbeFault(1)
    /\ response.httpStatus = 503

\* the 'environment variable is not set' faults of checkS3 and checkSES
NotSetFaults ==
    { "S3_BUCKET_NAME environment variable is not set",
      "SES_FROM_EMAIL environment variable is not set" }

\* C22: with S3_BUCKET_NAME unset or empty checkS3 resolves to null, and with
\* SES_FROM_EMAIL unset or empty checkSES resolves to null; no check ever
\* fulfils with the 'environment variable is not set' fault, and the report
\* GET sends has no entry for a check whose setting is missing.
C22_MissingSettingSkips ==
    /\ entry = "GET" =>
          /\ UnsetOrEmpty(env.S3_BUCKET_NAME) => (ResolvedToNull(2) /\ s3.pc = "skipped")
          /\ UnsetOrEmpty(env.SES_FROM_EMAIL) => (ResolvedToNull(3) /\ ses.pc = "skipped")
    /\ \A i \in {2, 3} :
          (promise[i].state = "fulfilled" /\ ~ResolvedToNull(i))
              => promise[i].value.message.err \notin NotSetFaults
    /\ (entry = "GET" /\ response.sent) =>
          /\ UnsetOrEmpty(env.S3_BUCKET_NAME)
                => EntriesOf(response.checks, "AWS S3") = {}
          /\ UnsetOrEmpty(env.SES_FROM_EMAIL)
                => EntriesOf(response.checks, "AWS SES") = {}
          /\ \A k \in 1 .. Len(response.checks) :
                response.checks[k].message.err \notin NotSetFaults

\* GET answered 'healthy' with S3_BUCKET_NAME unset and SES_FROM_EMAIL empty,
\* while the database check ran
C22_Witness ==
    /\ entry = "GET"
    /\ response.sent
    /\ Absent(env.S3_BUCKET_NAME)
    /\ env.SES_FROM_EMAIL = Str(<<>>)
    /\ EntriesOf(response.checks, "PostgreSQL Database") # {}
    /\ response.status = "healthy"

====
